---- MODULE Spec2Model ----
(***************************************************************************)
(* Dynamic Time Warping of pyts (src/pyts/metrics/dtw.py).                 *)
(*                                                                         *)
(* The module's functions are pure: every call builds its matrices afresh. *)
(* A behaviour of the model is one call: Init draws the arguments, and one *)
(* action per function applies it.  _return_path, whose claims speak about *)
(* each backtracking step, is also run one loop iteration at a time.       *)
(*                                                                         *)
(* Numbers.  The inputs are small naturals, so every cost and accumulated  *)
(* cost is a natural number that float64 holds exactly; np.inf is the      *)
(* value Inf, with the arithmetic and order of IEEE infinity.              *)
(* Arrays are functions on 0..n-1 (matrices on pairs <<i, j>>, row i,      *)
(* column j), indexed from 0 as in the source.                             *)
(***************************************************************************)
EXTENDS Integers, Sequences, FiniteSets, TLC

VARIABLES
    pc,            \* position of the call: "start", "backtrack", "done", "error"
    input,         \* the arguments the call was given
    call,          \* the function called and its options
    region,        \* the constraint region in use (None when there is none)
    cost_mat,      \* cost matrix
    acc_cost_mat,  \* accumulated cost matrix
    path,          \* the path of _return_path (reversed while backtracking)
    dtw_dist,      \* the distance returned
    levels         \* what dtw_multiscale and dtw_fast computed at each coarse level

vars == <<pc, input, call, region, cost_mat, acc_cost_mat, path, dtw_dist, levels>>

(***************************************************************************)
(* Bounds of the model.                                                    *)
(***************************************************************************)
\* largest side of the matrices handed to accumulated_cost_matrix/_return_path
MatN == 3
\* largest finite entry of those matrices
MatMaxVal == 1

(***************************************************************************)
(* Values.                                                                 *)
(***************************************************************************)
\* np.inf
Inf == -1

\* a variable that holds nothing yet (Python's None)
None == <<>>

\* a + b in float64, for naturals and inf
Add(a, b) == IF a = Inf \/ b = Inf THEN Inf ELSE a + b

\* a < b in float64, for naturals and inf
Less(a, b) == a # Inf /\ (b = Inf \/ a < b)

\* a <= b in float64, for naturals and inf
Leq(a, b) == ~ Less(b, a)

\* Python's min(a, b, c): the first of the smallest
min3(a, b, c) ==
    LET ab == IF Less(b, a) THEN b ELSE a
    IN  IF Less(c, ab) THEN c ELSE ab

\* argmin3 changed: among equal smallest values the last index wins
argmin3_last(a, b, c) ==
    IF Leq(c, a) /\ Leq(c, b) THEN 2
    ELSE IF Leq(b, a) THEN 1
    ELSE 0

\* np.argmin of the array [a, b, c]: the first index of the smallest
argmin3(a, b, c) ==
    IF Leq(a, b) /\ Leq(a, c) THEN 0
    ELSE IF Leq(b, c) THEN 1
    ELSE 2

\* the indices of an n x n matrix
Cells(n) == (0 .. n - 1) \X (0 .. n - 1)

\* np.cumsum(v)[k] for a one-dimensional array v
RECURSIVE cumsum(_, _)
cumsum(v, k) == IF k = 0 THEN v[0] ELSE Add(cumsum(v, k - 1), v[k])

(***************************************************************************)
(* The accumulated cost matrix without a region.                           *)
(***************************************************************************)
\* acc_cell_update changed: the diagonal predecessor is left out of the min
acc_cell_update_no_diagonal(acc, cost, i, j) ==
    [acc EXCEPT ![<<i, j>>] =
        Add(cost[<<i, j>>],
            min3(acc[<<i - 1, j>>], acc[<<i - 1, j>>], acc[<<i, j - 1>>]))]

\* acc_cell_update changed: the left predecessor is left out of the min
acc_cell_update_no_left(acc, cost, i, j) ==
    [acc EXCEPT ![<<i, j>>] =
        Add(cost[<<i, j>>],
            min3(acc[<<i - 1, j - 1>>], acc[<<i - 1, j>>], acc[<<i - 1, j>>]))]

\* the assignment of the loop body to cell (i, j)
acc_cell_update(acc, cost, i, j) ==
    [acc EXCEPT ![<<i, j>>] =
        Add(cost[<<i, j>>],
            min3(acc[<<i - 1, j - 1>>], acc[<<i - 1, j>>], acc[<<i, j - 1>>]))]

\* the two nested loops, for j in 1..n-1 (outer) and i in 1..n-1 (inner);
\* k counts the iterations already done
RECURSIVE acc_no_region_loop(_, _, _, _)
acc_no_region_loop(acc, cost, n, k) ==
    IF k >= (n - 1) * (n - 1) THEN acc
    ELSE LET j == 1 + (k \div (n - 1))
             i == 1 + (k % (n - 1))
         IN  acc_no_region_loop(acc_cell_update(acc, cost, i, j), cost, n, k + 1)

\* _accumulated_cost_matrix_no_region.  np.empty leaves the cells unset; each
\* is written (row 0, column 0, then the loop) before it is read, so the
\* unset cells are given the cost entry only to have a value.
accumulated_cost_matrix_no_region(cost, n) ==
    LET row0 == [j \in 0 .. n - 1 |-> cost[<<0, j>>]]
        col0 == [i \in 0 .. n - 1 |-> cost[<<i, 0>>]]
        first == [c \in Cells(n) |->
                    IF c[2] = 0 THEN cumsum(col0, c[1])
                    ELSE IF c[1] = 0 THEN cumsum(row0, c[2])
                    ELSE cost[c]]
    IN  acc_no_region_loop(first, cost, n, 0)

(***************************************************************************)
(* The path reconstructor.                                                 *)
(***************************************************************************)
\* return_path_step changed: the branch for j = 0 repeats the line of the
\* branch for i = 0
return_path_step_copied_branch(acc, i, j) ==
    IF i = 0 THEN <<0, j - 1>>
    ELSE IF j = 0 THEN <<0, j - 1>>
    ELSE LET argmin == argmin3(acc[<<i - 1, j - 1>>],
                               acc[<<i - 1, j>>],
                               acc[<<i, j - 1>>])
         IN  IF argmin = 0 THEN <<i - 1, j - 1>>
             ELSE IF argmin = 1 THEN <<i - 1, j>>
             ELSE <<i, j - 1>>

\* one iteration of the while loop of _return_path: the cell appended after
\* the cell (i, j) that ends the path
return_path_step(acc, i, j) ==
    IF i = 0 THEN <<0, j - 1>>
    ELSE IF j = 0 THEN <<i - 1, 0>>
    ELSE LET argmin == argmin3(acc[<<i - 1, j - 1>>],
                               acc[<<i - 1, j>>],
                               acc[<<i, j - 1>>])
         IN  IF argmin = 0 THEN <<i - 1, j - 1>>
             ELSE IF argmin = 1 THEN <<i - 1, j>>
             ELSE <<i, j - 1>>

\* path[::-1]
Reverse(s) == [k \in 1 .. Len(s) |-> s[Len(s) + 1 - k]]

\* the while loop of _return_path run from the list p to its end
RECURSIVE return_path_loop(_, _)
return_path_loop(acc, p) ==
    IF p[Len(p)] = <<0, 0>> THEN p
    ELSE return_path_loop(acc,
            Append(p, return_path_step(acc, p[Len(p)][1], p[Len(p)][2])))

\* _return_path: the sequence of cells from (0,0) to (n-1,n-1)
return_path(acc, n) == Reverse(return_path_loop(acc, << <<n - 1, n - 1>> >>))

(***************************************************************************)
(* Calls on a matrix: accumulated_cost_matrix and _return_path.            *)
(***************************************************************************)
MatVals == (0 .. MatMaxVal) \cup {Inf}

InitMat ==
    /\ pc = "start"
    /\ \E n \in 1 .. MatN :
         \E m \in [Cells(n) -> MatVals] : input = [n |-> n, mat |-> m]
    /\ call = [op |-> "none"]
    /\ region = None
    /\ cost_mat = None
    /\ acc_cost_mat = None
    /\ path = None
    /\ dtw_dist = None
    /\ levels = <<>>

\* accumulated_cost_matrix(cost_mat) with region=None; check_array refuses
\* a matrix with fewer than two rows or columns
accumulated_cost_matrix ==
    /\ pc = "start"
    /\ "mat" \in DOMAIN input
    /\ call' = [op |-> "accumulated_cost_matrix"]
    /\ IF input.n < 2
       THEN /\ pc' = "error"
            /\ UNCHANGED <<cost_mat, acc_cost_mat>>
       ELSE /\ pc' = "done"
            /\ cost_mat' = input.mat
            /\ acc_cost_mat' = accumulated_cost_matrix_no_region(input.mat, input.n)
    /\ UNCHANGED <<input, region, path, dtw_dist, levels>>

\* _return_path(acc_cost_mat): the list is started with the last cell
return_path_begin ==
    /\ pc = "start"
    /\ "mat" \in DOMAIN input
    /\ call' = [op |-> "_return_path"]
    /\ acc_cost_mat' = input.mat
    /\ path' = << <<input.n - 1, input.n - 1>> >>
    /\ pc' = "backtrack"
    /\ UNCHANGED <<input, region, cost_mat, dtw_dist, levels>>

\* one iteration of the while loop
return_path_iterate ==
    /\ pc = "backtrack"
    /\ path[Len(path)] # <<0, 0>>
    /\ path' = Append(path,
                 return_path_step(acc_cost_mat, path[Len(path)][1], path[Len(path)][2]))
    /\ UNCHANGED <<pc, input, call, region, cost_mat, acc_cost_mat, dtw_dist, levels>>

\* the loop has ended: the reversed list is returned
return_path_end ==
    /\ pc = "backtrack"
    /\ path[Len(path)] = <<0, 0>>
    /\ path' = Reverse(path)
    /\ pc' = "done"
    /\ UNCHANGED <<input, call, region, cost_mat, acc_cost_mat, dtw_dist, levels>>

NextMat ==
    \/ accumulated_cost_matrix
    \/ return_path_begin
    \/ return_path_iterate
    \/ return_path_end

SpecMat == InitMat /\ [][NextMat]_vars

(***************************************************************************)
(* Region generators.  A region is the 2 x n array of the source, a        *)
(* function on {0,1} x 0..n-1: region[<<0, j>>] is the first valid row of  *)
(* column j and region[<<1, j>>] the row after the last valid one.         *)
(***************************************************************************)
\* np.clip(v, lo, hi) of a number
clip(v, lo, hi) == IF v < lo THEN lo ELSE IF v > hi THEN hi ELSE v

\* the number of columns of a region
RegionCols(reg) == Cardinality({c \in DOMAIN reg : c[1] = 0})

\* sakoe_chiba_band's three array statements changed: the window is added to
\* both rows before the clip, without the + 1 of the end row
sakoe_chiba_region_no_plus_one(n_timestamps, window_size_) ==
    [c \in {0, 1} \X (0 .. n_timestamps - 1) |->
        clip(c[2] + (IF c[1] = 0 THEN - window_size_ ELSE window_size_),
             0, n_timestamps)]

\* the three array statements of sakoe_chiba_band: arange on both rows, the
\* column vector [-window_size_, window_size_ + 1] added, the clip to 0..n
sakoe_chiba_region(n_timestamps, window_size_) ==
    [c \in {0, 1} \X (0 .. n_timestamps - 1) |->
        clip(c[2] + (IF c[1] = 0 THEN - window_size_ ELSE window_size_ + 1),
             0, n_timestamps)]

\* sakoe_chiba_band(n_timestamps, window_size) for an integer window_size.
\* A float window_size in [0, 1] is first resolved to the integer
\* ceil(window_size * (n_timestamps - 1)), which lies in 0..n_timestamps-1:
\* the band it gives is the band of that integer.
sakoe_chiba_band(n_timestamps, window_size) ==
    IF ~ (n_timestamps >= 2) THEN [err |-> TRUE, val |-> None]
    ELSE IF ~ (0 <= window_size /\ window_size <= n_timestamps - 1)
    THEN [err |-> TRUE, val |-> None]
    ELSE [err |-> FALSE, val |-> sakoe_chiba_region(n_timestamps, window_size)]

\* np.round(a / b, 2) for b > 0, in hundredths: the nearest hundredth, a tie
\* going to the even one
round2(a, b) ==
    LET f == (100 * a) \div b
        r == (100 * a) - f * b
    IN  IF 2 * r < b THEN f
        ELSE IF 2 * r > b THEN f + 1
        ELSE IF f % 2 = 0 THEN f ELSE f + 1

\* the larger and the smaller of two numbers (np.max, np.min along axis 0)
max2(a, b) == IF a >= b THEN a ELSE b
min2(a, b) == IF a <= b THEN a ELSE b

\* lower_bound[j] of itakura_parallelogram for max_slope = p / q:
\* ceil of the max of min_slope * j and (1 - max_slope) * (n - 1) + max_slope * j,
\* both rounded to two decimals
itakura_lower(n_timestamps, p, q, j) ==
    LET h == max2(round2(q * j, p),
                  round2((q - p) * (n_timestamps - 1) + p * j, q))
    IN  - ((- h) \div 100)

\* itakura_upper changed: the + 1 that makes the end row exclusive is left out
itakura_upper_no_plus_one(n_timestamps, p, q, j) ==
    LET h == min2(round2(p * j, q),
                  round2((p - q) * (n_timestamps - 1) + q * j, p))
    IN  h \div 100

\* upper_bound[j] of itakura_parallelogram for max_slope = p / q:
\* floor of 1 + the min of max_slope * j and
\* (1 - min_slope) * (n - 1) + min_slope * j, both rounded to two decimals
itakura_upper(n_timestamps, p, q, j) ==
    LET h == min2(round2(p * j, q),
                  round2((p - q) * (n_timestamps - 1) + q * j, p))
    IN  (h + 100) \div 100

\* itakura_parallelogram(n_timestamps, max_slope) for max_slope = p / q
\* (p, q > 0).  The slopes of the model make no product fall half-way
\* between two hundredths, where the float product could round either way.
itakura_parallelogram(n_timestamps, p, q) ==
    IF ~ (n_timestamps >= 2) THEN [err |-> TRUE, val |-> None]
    ELSE IF ~ (p >= q) THEN [err |-> TRUE, val |-> None]
    ELSE [err |-> FALSE,
          val |-> [c \in {0, 1} \X (0 .. n_timestamps - 1) |->
                     IF c[1] = 0 THEN itakura_lower(n_timestamps, p, q, c[2])
                     ELSE itakura_upper(n_timestamps, p, q, c[2])]]

(***************************************************************************)
(* Calls of the region generators.                                         *)
(***************************************************************************)
\* largest n_timestamps given to a region generator
RegionN == 10

\* the slopes p / q given as max_slope: 1, 3/2, 2, 3 and the refused 1/2
Slopes == {<<1, 1>>, <<3, 2>>, <<2, 1>>, <<3, 1>>, <<1, 2>>}

InitRegion ==
    /\ pc = "start"
    /\ \E n \in 1 .. RegionN : input = [n |-> n]
    /\ call = [op |-> "none"]
    /\ region = None
    /\ cost_mat = None
    /\ acc_cost_mat = None
    /\ path = None
    /\ dtw_dist = None
    /\ levels = <<>>

\* sakoe_chiba_band(n, window_size), window sizes from -1 to n
call_sakoe_chiba_band ==
    /\ pc = "start"
    /\ \E w \in -1 .. input.n :
         LET res == sakoe_chiba_band(input.n, w)
         IN  /\ call' = [op |-> "sakoe_chiba_band", window_size |-> w]
             /\ pc' = IF res.err THEN "error" ELSE "done"
             /\ region' = res.val
    /\ UNCHANGED <<input, cost_mat, acc_cost_mat, path, dtw_dist, levels>>

\* itakura_parallelogram(n, max_slope)
call_itakura_parallelogram ==
    /\ pc = "start"
    /\ \E s \in Slopes :
         LET res == itakura_parallelogram(input.n, s[1], s[2])
         IN  /\ call' = [op |-> "itakura_parallelogram", max_slope |-> s]
             /\ pc' = IF res.err THEN "error" ELSE "done"
             /\ region' = res.val
    /\ UNCHANGED <<input, cost_mat, acc_cost_mat, path, dtw_dist, levels>>

NextRegion ==
    \/ call_sakoe_chiba_band
    \/ call_itakura_parallelogram

SpecRegion == InitRegion /\ [][NextRegion]_vars

(***************************************************************************)
(* The cost matrix.                                                        *)
(***************************************************************************)
\* _square
square(a, b) == (a - b) * (a - b)

\* _absolute
absolute(a, b) == IF a >= b THEN a - b ELSE b - a

\* a callable given as dist: a function of the caller that also computes the
\* squared difference (the value "callable" of dist stands for it)
callable_dist(a, b) == (a - b) * (a - b)

\* the distance function cost_matrix selects for dist
dist_(dist, a, b) ==
    IF dist = "square" THEN square(a, b)
    ELSE IF dist = "absolute" THEN absolute(a, b)
    ELSE callable_dist(a, b)

\* _cost_matrix_no_region
cost_matrix_no_region(x, y, dist, n) ==
    [c \in Cells(n) |-> dist_(dist, x[c[1]], y[c[2]])]

\* _cost_matrix_region changed: the region is read as a range of columns for
\* each row
cost_matrix_region_transposed(x, y, dist, reg, n) ==
    [c \in Cells(n) |->
        IF reg[<<0, c[1]>>] <= c[2] /\ c[2] < reg[<<1, c[1]>>]
        THEN dist_(dist, x[c[1]], y[c[2]])
        ELSE Inf]

\* _cost_matrix_region changed: the matrix starts as zeros, not as +inf
cost_matrix_region_zeros(x, y, dist, reg, n) ==
    [c \in Cells(n) |->
        IF reg[<<0, c[2]>>] <= c[1] /\ c[1] < reg[<<1, c[2]>>]
        THEN dist_(dist, x[c[1]], y[c[2]])
        ELSE 0]

\* _cost_matrix_region: np.full(inf), then for each column j the rows
\* region[0, j] .. region[1, j] - 1 are filled (for a region within 0..n)
cost_matrix_region(x, y, dist, reg, n) ==
    [c \in Cells(n) |->
        IF reg[<<0, c[2]>>] <= c[1] /\ c[1] < reg[<<1, c[2]>>]
        THEN dist_(dist, x[c[1]], y[c[2]])
        ELSE Inf]

\* cost_matrix(x, y, dist, region) for dist 'square' or 'absolute': a region
\* whose shape is not (2, n) is refused
cost_matrix(x, y, dist, reg, n) ==
    IF reg = None THEN [err |-> FALSE, val |-> cost_matrix_no_region(x, y, dist, n)]
    ELSE IF RegionCols(reg) # n THEN [err |-> TRUE, val |-> None]
    ELSE [err |-> FALSE, val |-> cost_matrix_region(x, y, dist, reg, n)]

(***************************************************************************)
(* Calls of cost_matrix.                                                   *)
(***************************************************************************)
\* longest sequences given to cost_matrix
CostN == 3
\* largest element of those sequences
CostMaxVal == 2

\* the regions of shape (2, n) with 0 <= region[0, j] <= region[1, j] <= n
Regions(n) ==
    {reg \in [{0, 1} \X (0 .. n - 1) -> 0 .. n] :
        \A j \in 0 .. n - 1 : reg[<<0, j>>] <= reg[<<1, j>>]}

InitCost ==
    /\ pc = "start"
    /\ \E n \in 1 .. CostN :
         \E x, y \in [0 .. n - 1 -> 0 .. CostMaxVal] :
           \E d \in {"square", "absolute"} :
             input = [n |-> n, x |-> x, y |-> y, dist |-> d]
    /\ call = [op |-> "none"]
    /\ region = None
    /\ cost_mat = None
    /\ acc_cost_mat = None
    /\ path = None
    /\ dtw_dist = None
    /\ levels = <<>>

\* cost_matrix(x, y, dist) with region=None
call_cost_matrix_no_region ==
    /\ pc = "start"
    /\ LET res == cost_matrix(input.x, input.y, input.dist, None, input.n)
       IN  /\ call' = [op |-> "cost_matrix"]
           /\ region' = None
           /\ pc' = IF res.err THEN "error" ELSE "done"
           /\ cost_mat' = res.val
    /\ UNCHANGED <<input, acc_cost_mat, path, dtw_dist, levels>>

\* cost_matrix(x, y, dist, region), with every region of n columns and one
\* region of n + 1 columns
call_cost_matrix_region ==
    /\ pc = "start"
    /\ \E reg \in Regions(input.n) \cup {[c \in {0, 1} \X (0 .. input.n) |-> 0]} :
         LET res == cost_matrix(input.x, input.y, input.dist, reg, input.n)
         IN  /\ call' = [op |-> "cost_matrix"]
             /\ region' = reg
             /\ pc' = IF res.err THEN "error" ELSE "done"
             /\ cost_mat' = res.val
    /\ UNCHANGED <<input, acc_cost_mat, path, dtw_dist, levels>>

NextCost ==
    \/ call_cost_matrix_no_region
    \/ call_cost_matrix_region

SpecCost == InitCost /\ [][NextCost]_vars

(***************************************************************************)
(* The accumulated cost matrix with a region.                              *)
(***************************************************************************)
\* the row a row index reads: a negative index counts from the end
wrap_index(k, n) == IF k < 0 THEN k + n ELSE k

\* the assignment of the loop body of _accumulated_cost_matrix_region to
\* cell (i, j); acc_cost_mat[i - 1] with i = 0 is the last row
acc_region_cell_update(acc, cost, n, i, j) ==
    [acc EXCEPT ![<<i, j>>] =
        Add(cost[<<i, j>>],
            min3(acc[<<wrap_index(i - 1, n), j - 1>>],
                 acc[<<wrap_index(i - 1, n), j>>],
                 acc[<<i, j - 1>>]))]

\* the two nested loops from column j, row i on: for j in 1..n-1 and
\* i in region[0, j]..region[1, j]-1
RECURSIVE acc_region_loop(_, _, _, _, _, _)
acc_region_loop(acc, cost, reg, n, j, i) ==
    IF j >= n THEN acc
    ELSE IF i >= reg[<<1, j>>]
    THEN acc_region_loop(acc, cost, reg, n, j + 1,
                         IF j + 1 < n THEN reg[<<0, j + 1>>] ELSE 0)
    ELSE acc_region_loop(acc_region_cell_update(acc, cost, n, i, j),
                         cost, reg, n, j, i + 1)

\* _accumulated_cost_matrix_region (for a region within 0..n): the matrix
\* starts as +inf, the first region[1, 0] cells of row 0 and of column 0
\* take the cumulative sums, then the loops run
accumulated_cost_matrix_region(cost, reg, n) ==
    LET row0 == [j \in 0 .. n - 1 |-> cost[<<0, j>>]]
        col0 == [i \in 0 .. n - 1 |-> cost[<<i, 0>>]]
        first == [c \in Cells(n) |->
                    IF c[2] = 0 /\ c[1] < reg[<<1, 0>>] THEN cumsum(col0, c[1])
                    ELSE IF c[1] = 0 /\ c[2] < reg[<<1, 0>>] THEN cumsum(row0, c[2])
                    ELSE Inf]
    IN  acc_region_loop(first, cost, reg, n, 1, IF n > 1 THEN reg[<<0, 1>>] ELSE 0)

(***************************************************************************)
(* Calls of accumulated_cost_matrix with a region.                         *)
(***************************************************************************)
\* largest side of the matrices given together with a region
AccN == 3
\* largest entry of those matrices
AccMaxVal == 1

InitAcc ==
    /\ pc = "start"
    /\ \E n \in 1 .. AccN :
         \E m \in [Cells(n) -> 0 .. AccMaxVal] : input = [n |-> n, mat |-> m]
    /\ call = [op |-> "none"]
    /\ region = None
    /\ cost_mat = None
    /\ acc_cost_mat = None
    /\ path = None
    /\ dtw_dist = None
    /\ levels = <<>>

\* accumulated_cost_matrix(cost_mat, region): a matrix smaller than 2 x 2 and
\* a region whose shape is not (2, n) are refused
accumulated_cost_matrix_with(cost, reg) ==
    /\ call' = [op |-> "accumulated_cost_matrix"]
    /\ region' = reg
    /\ IF input.n < 2 \/ RegionCols(reg) # input.n
       THEN /\ pc' = "error"
            /\ UNCHANGED <<cost_mat, acc_cost_mat>>
       ELSE /\ pc' = "done"
            /\ cost_mat' = cost
            /\ acc_cost_mat' = accumulated_cost_matrix_region(cost, reg, input.n)
    /\ UNCHANGED <<input, path, dtw_dist, levels>>

\* the call with a matrix of finite entries everywhere, with every region of
\* n columns and one region of n + 1 columns
call_accumulated_cost_matrix_finite ==
    /\ pc = "start"
    /\ \E reg \in Regions(input.n) \cup {[c \in {0, 1} \X (0 .. input.n) |-> 0]} :
         accumulated_cost_matrix_with(input.mat, reg)

\* the call with a matrix that is +inf outside the region, as cost_matrix
\* builds it
call_accumulated_cost_matrix_masked ==
    /\ pc = "start"
    /\ \E reg \in Regions(input.n) :
         accumulated_cost_matrix_with(
            [c \in Cells(input.n) |->
                IF reg[<<0, c[2]>>] <= c[1] /\ c[1] < reg[<<1, c[2]>>]
                THEN input.mat[c] ELSE Inf],
            reg)

NextAcc ==
    \/ call_accumulated_cost_matrix_finite
    \/ call_accumulated_cost_matrix_masked

SpecAcc == InitAcc /\ [][NextAcc]_vars

(***************************************************************************)
(* The distance.  A returned distance is kept in thousandths, rounded      *)
(* down: sqrt(4) is 2000 and sqrt(5) is 2236.                              *)
(***************************************************************************)
\* Newton's iteration for the integer square root of m > 0, from r >= sqrt(m)
RECURSIVE isqrt_iter(_, _)
isqrt_iter(m, r) ==
    LET r2 == (r + (m \div r)) \div 2
    IN  IF r2 >= r THEN r ELSE isqrt_iter(m, r2)

\* math.sqrt of an accumulated cost, in thousandths
sqrt(v) ==
    IF v = Inf THEN Inf
    ELSE IF v = 0 THEN 0
    ELSE isqrt_iter(v * 1000000, v * 1000000)

\* an accumulated cost returned as it is, in thousandths
unchanged(v) == IF v = Inf THEN Inf ELSE v * 1000

\* the result of a call that raised
Raised ==
    [err |-> TRUE, region |-> None, cost_mat |-> None, acc_cost_mat |-> None,
     dtw_dist |-> None, path |-> None, levels |-> <<>>]

\* final_distance changed: the square root is taken for every distance
final_distance_always_sqrt(acc, n, dist) == sqrt(acc[<<n - 1, n - 1>>])

\* dtw_dist = acc_cost_mat[-1, -1], replaced by its square root for 'square'
final_distance(acc, n, dist) ==
    IF dist = "square" THEN sqrt(acc[<<n - 1, n - 1>>])
    ELSE unchanged(acc[<<n - 1, n - 1>>])

\* dtw_results changed: accumulated_cost_matrix takes a matrix of any size
dtw_results_any_size(x, y, dist, n, reg, lv) ==
    LET cm == cost_matrix(x, y, dist, reg, n)
    IN  IF cm.err THEN Raised
        ELSE LET acc == accumulated_cost_matrix_no_region(cm.val, n)
             IN  [err |-> FALSE, region |-> reg, cost_mat |-> cm.val,
                  acc_cost_mat |-> acc,
                  dtw_dist |-> final_distance(acc, n, dist),
                  path |-> return_path(acc, n), levels |-> lv]

\* the statements every dtw_* function ends with, given its region:
\* cost_matrix with the region, accumulated_cost_matrix without one (it
\* refuses a matrix smaller than 2 x 2), the distance, _return_results.
\* The call is made with return_cost, return_accumulated and return_path
\* all True, so that every result is kept; the flags only select which of
\* them are handed back.
dtw_results(x, y, dist, n, reg, lv) ==
    LET cm == cost_matrix(x, y, dist, reg, n)
    IN  IF cm.err \/ n < 2 THEN Raised
        ELSE LET acc == accumulated_cost_matrix_no_region(cm.val, n)
             IN  [err |-> FALSE, region |-> reg, cost_mat |-> cm.val,
                  acc_cost_mat |-> acc,
                  dtw_dist |-> final_distance(acc, n, dist),
                  path |-> return_path(acc, n), levels |-> lv]

\* dtw_classic
dtw_classic(x, y, dist, n) == dtw_results(x, y, dist, n, None, <<>>)

\* dtw_region: a region whose shape is not (2, n) is refused
dtw_region(x, y, dist, n, reg) ==
    IF reg # None /\ RegionCols(reg) # n THEN Raised
    ELSE dtw_results(x, y, dist, n, reg, <<>>)

\* dtw_sakoechiba
dtw_sakoechiba(x, y, dist, n, window_size) ==
    LET band == sakoe_chiba_band(n, window_size)
    IN  IF band.err THEN Raised ELSE dtw_results(x, y, dist, n, band.val, <<>>)

\* dtw_itakura, max_slope = p / q
dtw_itakura(x, y, dist, n, p, q) ==
    LET par == itakura_parallelogram(n, p, q)
    IN  IF par.err THEN Raised ELSE dtw_results(x, y, dist, n, par.val, <<>>)

(***************************************************************************)
(* Reduced sequences and the multiscale region.                            *)
(***************************************************************************)
\* the sum of v[from], ..., v[from + count - 1], an index past the end
\* reading the last element (the padding with x[-1])
RECURSIVE block_sum(_, _, _, _)
block_sum(v, n, from, count) ==
    IF count = 0 THEN 0
    ELSE v[min2(from, n - 1)] + block_sum(v, n, from + 1, count - 1)

\* the number of blocks of size resolution that cover n elements
n_blocks(n, resolution) == (n + resolution - 1) \div resolution

\* x_padded: the means of the blocks of size resolution of the padded
\* sequence, kept multiplied by resolution (the block sums).  Both sequences
\* are scaled alike, so the cost matrix is scaled by resolution or its
\* square, and the order of the accumulated costs, which is all the path
\* depends on, is that of the means.
reduced(v, n, resolution) ==
    [b \in 0 .. n_blocks(n, resolution) - 1 |-> block_sum(v, n, b * resolution, resolution)]

\* the columns of path_radius: the cells of the path and those of path_up,
\* path_down, path_left, path_right, clipped to the reduced grid.
\* np.repeat(path, radius, axis=1) holds at column t the path cell
\* t // radius, and the loop shifts the columns
\* path_length * (i - 1) .. path_length * i - 1 by i.
path_radius(p, radius, n_timestamps_reduced) ==
    LET path_length == Len(p)
        cell(t) == p[(t \div radius) + 1]
        shift(t) == (t \div path_length) + 1
        cl(v) == clip(v, 0, n_timestamps_reduced - 1)
        T == 0 .. path_length * radius - 1
    IN  {<<cl(p[k][1]), cl(p[k][2])>> : k \in 1 .. path_length}
        \cup {<<cl(cell(t)[1] + shift(t)), cl(cell(t)[2])>> : t \in T}
        \cup {<<cl(cell(t)[1] - shift(t)), cl(cell(t)[2])>> : t \in T}
        \cup {<<cl(cell(t)[1]), cl(cell(t)[2] - shift(t))>> : t \in T}
        \cup {<<cl(cell(t)[1]), cl(cell(t)[2] + shift(t))>> : t \in T}

\* np.min and np.max of a set of integers
set_min(S) == CHOOSE v \in S : \A w \in S : v <= w
set_max(S) == CHOOSE v \in S : \A w \in S : v >= w

\* region_reduced changed: the end index is the greatest second index itself,
\* not one past it
region_reduced_no_plus_one(pr, resolution_level, n_timestamps_reduced) ==
    [c \in {0, 1} \X (0 .. n_timestamps_reduced - 1) |->
        LET arr == {cell[2] : cell \in {d \in pr : d[1] = c[2]}}
        IN  IF c[1] = 0 THEN set_min(arr) * resolution_level
            ELSE set_max(arr) * resolution_level]

\* region_reduced: for each i, the least and (one past) the greatest second
\* index among the cells of path_radius whose first index is i, times the
\* resolution
region_reduced(pr, resolution_level, n_timestamps_reduced) ==
    [c \in {0, 1} \X (0 .. n_timestamps_reduced - 1) |->
        LET arr == {cell[2] : cell \in {d \in pr : d[1] = c[2]}}
        IN  IF c[1] = 0 THEN set_min(arr) * resolution_level
            ELSE (set_max(arr) + 1) * resolution_level]

\* _multiscale_region: region_reduced repeated resolution_level times along
\* the columns, cut to the first n_timestamps columns, clipped to 0..n
multiscale_region(n_timestamps, resolution_level, n_timestamps_reduced, p, radius) ==
    LET rr == region_reduced(path_radius(p, radius, n_timestamps_reduced),
                             resolution_level, n_timestamps_reduced)
        cols == min2(n_timestamps, n_timestamps_reduced * resolution_level)
    IN  [c \in {0, 1} \X (0 .. cols - 1) |->
            clip(rr[<<c[1], c[2] \div resolution_level>>], 0, n_timestamps)]

\* what one coarse level computes: the reduced sequences, their cost and
\* accumulated cost matrices under the region carried so far, the path, and
\* the region for the next level
coarse_level(x, y, dist, n, resolution, reg, n_next, res_next, radius) ==
    LET n_red == n_blocks(n, resolution)
        x_padded == reduced(x, n, resolution)
        y_padded == reduced(y, n, resolution)
        cm == cost_matrix(x_padded, y_padded, dist, reg, n_red)
    IN  IF cm.err \/ n_red < 2 THEN [err |-> TRUE]
        ELSE LET acc == accumulated_cost_matrix_no_region(cm.val, n_red)
                 path_res == return_path(acc, n_red)
             IN  [err |-> FALSE, resolution |-> resolution, n_reduced |-> n_red,
                  region_in |-> reg, acc_cost_mat_res |-> acc, path_res |-> path_res,
                  path_radius |-> path_radius(path_res, radius, n_red),
                  region |-> multiscale_region(n_next, res_next, n_red, path_res, radius)]

\* dtw_multiscale
dtw_multiscale(x, y, dist, n, resolution, radius) ==
    IF resolution < 1 \/ radius < 0 THEN Raised
    ELSE IF resolution = 1 THEN dtw_results(x, y, dist, n, None, <<>>)
    ELSE LET lv == coarse_level(x, y, dist, n, resolution, None, n, resolution, radius)
         IN  IF lv.err THEN Raised
             ELSE dtw_results(x, y, dist, n, lv.region, <<lv>>)

\* n_recursions changed: the least k with min_size * 2^k > n, one more than
\* the ceiling when n / min_size is a power of two
RECURSIVE n_recursions_strict(_, _, _)
n_recursions_strict(n, min_size, k) ==
    IF min_size * (2 ^ k) > n THEN k ELSE n_recursions_strict(n, min_size, k + 1)

\* ceil(log2(n / min_size)) for n > min_size: the least k >= k0 with
\* min_size * 2^k >= n
RECURSIVE n_recursions(_, _, _)
n_recursions(n, min_size, k) ==
    IF min_size * (2 ^ k) >= n THEN k ELSE n_recursions(n, min_size, k + 1)

\* the loop of dtw_fast from iteration i on, reg being the region carried
\* and lv the levels done
RECURSIVE fast_loop(_, _, _, _, _, _, _, _, _)
fast_loop(x, y, dist, n, radius, k, i, reg, lv) ==
    IF i >= k THEN [err |-> FALSE, region |-> reg, levels |-> lv]
    ELSE LET resolution == 2 ^ (k - i)
             n_timestamps_next == ((2 * n) + resolution - 1) \div resolution
             this == coarse_level(x, y, dist, n, resolution, reg,
                                  n_timestamps_next, 2, radius)
         IN  IF this.err THEN [err |-> TRUE]
             ELSE fast_loop(x, y, dist, n, radius, k, i + 1, this.region,
                            Append(lv, this))

\* dtw_fast changed: min_size is 2 whatever the radius
dtw_fast_min_size_two(x, y, dist, n, radius) ==
    IF radius < 0 THEN Raised
    ELSE LET min_size == 2
         IN  IF ~ (n > min_size) THEN dtw_results(x, y, dist, n, None, <<>>)
             ELSE LET k == n_recursions(n, min_size, 0)
                      lp == fast_loop(x, y, dist, n, radius, k, 0, None, <<>>)
                  IN  IF lp.err THEN Raised
                      ELSE dtw_results(x, y, dist, n, lp.region, lp.levels)

\* dtw_fast
dtw_fast(x, y, dist, n, radius) ==
    IF radius < 0 THEN Raised
    ELSE LET min_size == radius + 2
         IN  IF ~ (n > min_size) THEN dtw_results(x, y, dist, n, None, <<>>)
             ELSE LET k == n_recursions(n, min_size, 0)
                      lp == fast_loop(x, y, dist, n, radius, k, 0, None, <<>>)
                  IN  IF lp.err THEN Raised
                      ELSE dtw_results(x, y, dist, n, lp.region, lp.levels)

(***************************************************************************)
(* Calls of dtw.  dist is 'square', 'absolute', or (for the shorter        *)
(* sequences) a callable.                                                  *)
(***************************************************************************)
\* longest sequences given to dtw
DtwN == 5
\* largest element of those sequences
DtwMaxVal == 1
\* longest sequences for which dtw_region is given every region
DtwRegionN == 3
\* largest resolution given to dtw_multiscale
DtwMaxRes == 4
\* largest radius given to dtw_multiscale and dtw_fast
DtwMaxRadius == 2

\* the sequences of the examples in the docstrings: x = [0, 1, 1], y = [2, 0, 1]
ExampleX == [k \in 0 .. 2 |-> IF k = 0 THEN 0 ELSE 1]
ExampleY == [k \in 0 .. 2 |-> IF k = 0 THEN 2 ELSE IF k = 1 THEN 0 ELSE 1]

InitDtw ==
    /\ pc = "start"
    /\ \/ \E d \in {"square", "absolute"} :
            \/ \E n \in 1 .. DtwN :
                 \E x, y \in [0 .. n - 1 -> 0 .. DtwMaxVal] :
                   input = [n |-> n, x |-> x, y |-> y, dist |-> d]
            \/ input = [n |-> 3, x |-> ExampleX, y |-> ExampleY, dist |-> d]
       \/ \E n \in 1 .. DtwRegionN :
            \E x, y \in [0 .. n - 1 -> 0 .. DtwMaxVal] :
              input = [n |-> n, x |-> x, y |-> y, dist |-> "callable"]
       \/ input = [n |-> 3, x |-> ExampleX, y |-> ExampleY, dist |-> "callable"]
    /\ call = [op |-> "none"]
    /\ region = None
    /\ cost_mat = None
    /\ acc_cost_mat = None
    /\ path = None
    /\ dtw_dist = None
    /\ levels = <<>>

\* the call returns res, or raises
Returns(res) ==
    /\ pc' = IF res.err THEN "error" ELSE "done"
    /\ region' = res.region
    /\ cost_mat' = res.cost_mat
    /\ acc_cost_mat' = res.acc_cost_mat
    /\ dtw_dist' = res.dtw_dist
    /\ path' = res.path
    /\ levels' = res.levels
    /\ UNCHANGED input

\* dtw(x, y, dist, method='classic')
call_dtw_classic ==
    /\ pc = "start"
    /\ call' = [op |-> "classic"]
    /\ Returns(dtw_classic(input.x, input.y, input.dist, input.n))

\* dtw_region(x, y, dist, region): every region of n columns for short
\* sequences, and one region of n + 1 columns
call_dtw_region ==
    /\ pc = "start"
    /\ \E reg \in (IF input.n <= DtwRegionN THEN Regions(input.n) ELSE {})
                    \cup {[c \in {0, 1} \X (0 .. input.n) |-> 0]} :
         /\ call' = [op |-> "region", region |-> reg]
         /\ Returns(dtw_region(input.x, input.y, input.dist, input.n, reg))

\* dtw(x, y, dist, method='sakoechiba', options={'window_size': w})
call_dtw_sakoechiba ==
    /\ pc = "start"
    /\ \E w \in -1 .. input.n :
         /\ call' = [op |-> "sakoechiba", window_size |-> w]
         /\ Returns(dtw_sakoechiba(input.x, input.y, input.dist, input.n, w))

\* dtw(x, y, dist, method='itakura', options={'max_slope': s})
call_dtw_itakura ==
    /\ pc = "start"
    /\ \E s \in Slopes :
         /\ call' = [op |-> "itakura", max_slope |-> s]
         /\ Returns(dtw_itakura(input.x, input.y, input.dist, input.n, s[1], s[2]))

\* dtw(x, y, dist, method='multiscale', options={'resolution': r, 'radius': rho})
call_dtw_multiscale ==
    /\ pc = "start"
    /\ \E r \in 0 .. DtwMaxRes : \E rho \in -1 .. DtwMaxRadius :
         /\ call' = [op |-> "multiscale", resolution |-> r, radius |-> rho]
         /\ Returns(dtw_multiscale(input.x, input.y, input.dist, input.n, r, rho))

\* dtw(x, y, dist, method='fast', options={'radius': rho})
call_dtw_fast ==
    /\ pc = "start"
    /\ \E rho \in -1 .. DtwMaxRadius :
         /\ call' = [op |-> "fast", radius |-> rho]
         /\ Returns(dtw_fast(input.x, input.y, input.dist, input.n, rho))

\* dtw(x, y, dist, method=m) for a method name that is none of the five
call_dtw_unknown_method ==
    /\ pc = "start"
    /\ call' = [op |-> "unknown"]
    /\ Returns(Raised)

NextDtw ==
    \/ call_dtw_classic
    \/ call_dtw_region
    \/ call_dtw_sakoechiba
    \/ call_dtw_itakura
    \/ call_dtw_multiscale
    \/ call_dtw_fast
    \/ call_dtw_unknown_method

SpecDtw == InitDtw /\ [][NextDtw]_vars

(***************************************************************************)
(* Monotone paths, for the statements about optimal cost.                  *)
(***************************************************************************)
\* the three moves: diagonal, up (one row further), left (one column further)
Moves == {<<1, 1>>, <<1, 0>>, <<0, 1>>}

\* every sequence of cells from (0,0) to (i,j) in which each cell follows
\* the one before by one of the three moves
RECURSIVE MonotonePaths(_, _)
MonotonePaths(i, j) ==
    IF i = 0 /\ j = 0 THEN { << <<0, 0>> >> }
    ELSE LET before == {c \in {<<i - 1, j - 1>>, <<i - 1, j>>, <<i, j - 1>>} :
                            c[1] >= 0 /\ c[2] >= 0}
         IN  UNION {{Append(p, <<i, j>>) : p \in MonotonePaths(c[1], c[2])} :
                        c \in before}

\* the sum of the entries of matrix m on the cells of p
RECURSIVE PathCost(_, _)
PathCost(m, p) ==
    IF p = <<>> THEN 0 ELSE Add(PathCost(m, SubSeq(p, 1, Len(p) - 1)), m[p[Len(p)]])

\* the smallest element of a non-empty set of values
Smallest(S) == CHOOSE v \in S : \A w \in S : Leq(v, w)

\* the least cost of a monotone path from (0,0) to (i,j) through matrix m
MinPathCost(m, i, j) == Smallest({PathCost(m, p) : p \in MonotonePaths(i, j)})

(***************************************************************************)
(* C1: without a region, entry (i,j) of the accumulated cost matrix of a   *)
(* square matrix (n >= 2, entries non-negative or +inf) is the least sum   *)
(* of cost entries over the monotone paths from (0,0) to (i,j); acc[0,0] = *)
(* cost[0,0], and for i,j >= 1 acc[i,j] = cost[i,j] + the min of the three *)
(* predecessors.                                                           *)
(***************************************************************************)
C1_AccIsMinPathCost ==
    (pc = "done" /\ call.op = "accumulated_cost_matrix" /\ input.n >= 2) =>
        /\ DOMAIN acc_cost_mat = Cells(input.n)
        /\ acc_cost_mat[<<0, 0>>] = cost_mat[<<0, 0>>]
        /\ \A c \in Cells(input.n) :
             acc_cost_mat[c] = MinPathCost(cost_mat, c[1], c[2])
        /\ \A i, j \in 1 .. input.n - 1 :
             LET a == acc_cost_mat[<<i - 1, j - 1>>]
                 b == acc_cost_mat[<<i - 1, j>>]
                 c == acc_cost_mat[<<i, j - 1>>]
                 least == Smallest({a, b, c})
             IN  acc_cost_mat[<<i, j>>] = Add(cost_mat[<<i, j>>], least)

\* a 3 x 3 matrix with an infinite entry in the middle has been accumulated,
\* and the last cell is reached at a finite cost that the diagonal move from
\* (0,0) cannot give
C1_Witness ==
    /\ pc = "done" /\ call.op = "accumulated_cost_matrix" /\ input.n = 3
    /\ cost_mat[<<1, 1>>] = Inf
    /\ acc_cost_mat[<<2, 2>>] = 2
    /\ acc_cost_mat[<<1, 2>>] = 1

(***************************************************************************)
(* C2: for equal-length sequences (n >= 2), the same distance function and *)
(* valid options, the distance of every constrained method (sakoechiba,    *)
(* itakura, multiscale, fast, dtw_region with an explicit region) is       *)
(* greater than or equal to the distance of dtw_classic on the same x, y.  *)
(***************************************************************************)
C2_ConstrainedAtLeastClassic ==
    (pc = "done" /\ input.n >= 2
        /\ call.op \in {"sakoechiba", "itakura", "multiscale", "fast", "region"}) =>
        Leq(dtw_classic(input.x, input.y, input.dist, input.n).dtw_dist, dtw_dist)

\* dtw_multiscale has returned, under a region built from a coarse path, a
\* finite distance above the classic one (the example of the docstrings)
C2_Witness ==
    /\ pc = "done" /\ call.op = "multiscale" /\ call.resolution = 2
    /\ input.x = ExampleX /\ input.y = ExampleY /\ input.dist = "square"
    /\ region # None
    /\ dtw_dist = 2236
    /\ dtw_classic(input.x, input.y, input.dist, input.n).dtw_dist = 2000

(***************************************************************************)
(* C3: the path of _return_path on an n x n matrix (n >= 2) starts at      *)
(* (0,0), ends at (n-1,n-1), every step is one of the three moves, and no  *)
(* index leaves 0..n-1 (while backtracking as well as in the result).      *)
(***************************************************************************)
C3_PathWellFormed ==
    (call.op = "_return_path" /\ input.n >= 2) =>
        /\ pc = "backtrack" =>
             /\ path[1] = <<input.n - 1, input.n - 1>>
             /\ \A k \in 1 .. Len(path) : path[k] \in Cells(input.n)
             /\ \A k \in 1 .. Len(path) - 1 :
                  <<path[k][1] - path[k + 1][1], path[k][2] - path[k + 1][2]>> \in Moves
        /\ pc = "done" =>
             /\ path[1] = <<0, 0>>
             /\ path[Len(path)] = <<input.n - 1, input.n - 1>>
             /\ \A k \in 1 .. Len(path) : path[k] \in Cells(input.n)
             /\ \A k \in 1 .. Len(path) - 1 :
                  <<path[k + 1][1] - path[k][1], path[k + 1][2] - path[k][2]>> \in Moves

\* a returned path of a 3 x 3 matrix that uses each of the three moves
C3_Witness ==
    /\ pc = "done" /\ call.op = "_return_path" /\ input.n = 3
    /\ \A m \in Moves : \E k \in 1 .. Len(path) - 1 :
         <<path[k + 1][1] - path[k][1], path[k + 1][2] - path[k][2]>> = m

(***************************************************************************)
(* C4: backtracking from (i,j) with i,j >= 1 moves to the neighbour among  *)
(* (i-1,j-1), (i-1,j), (i,j-1) of smallest accumulated cost, the first in  *)
(* that order on ties; from (0,j) it moves to (0,j-1) and from (i,0) to    *)
(* (i-1,0) whatever the values.                                            *)
(***************************************************************************)
\* the neighbour the claim names for cell (i,j) of matrix m
C4_Chosen(m, i, j) ==
    IF i = 0 THEN <<0, j - 1>>
    ELSE IF j = 0 THEN <<i - 1, 0>>
    ELSE LET cand == << <<i - 1, j - 1>>, <<i - 1, j>>, <<i, j - 1>> >>
             best == {k \in 1 .. 3 : \A l \in 1 .. 3 : Leq(m[cand[k]], m[cand[l]])}
             first == CHOOSE k \in best : \A l \in best : k <= l
         IN  cand[first]

\* C4: every cell appended while backtracking is the neighbour the claim names
C4_BacktrackChoice ==
    (call.op = "_return_path" /\ pc = "backtrack") =>
        \A k \in 1 .. Len(path) - 1 :
            path[k + 1] = C4_Chosen(acc_cost_mat, path[k][1], path[k][2])

\* backtracking has met a tie between the up and the left neighbour, both
\* below the diagonal one, and has moved up
C4_Witness ==
    /\ call.op = "_return_path" /\ pc = "backtrack" /\ Len(path) >= 2
    /\ path[1] = <<2, 2>>
    /\ acc_cost_mat[<<1, 2>>] = acc_cost_mat[<<2, 1>>]
    /\ Less(acc_cost_mat[<<1, 2>>], acc_cost_mat[<<1, 1>>])
    /\ path[2] = <<1, 2>>

(***************************************************************************)
(* C5: for equal-length sequences of length n >= 2 and the squared or      *)
(* absolute distance, dtw_classic(x, y) equals dtw_classic(y, x).          *)
(***************************************************************************)
C5_ClassicSymmetric ==
    (pc = "done" /\ call.op = "classic" /\ input.n >= 2) =>
        dtw_dist = dtw_classic(input.y, input.x, input.dist, input.n).dtw_dist

\* dtw_classic has returned for two different sequences whose accumulated
\* cost matrix is not symmetric
C5_Witness ==
    /\ pc = "done" /\ call.op = "classic" /\ input.n = 3
    /\ input.x # input.y
    /\ acc_cost_mat[<<0, 2>>] # acc_cost_mat[<<2, 0>>]
    /\ dtw_dist > 0

(***************************************************************************)
(* C6: for a sequence x of length n >= 2 and the squared or absolute       *)
(* distance, dtw_classic(x, x) equals 0.                                   *)
(***************************************************************************)
C6_ClassicSelfDistanceZero ==
    (pc = "done" /\ call.op = "classic" /\ input.n >= 2 /\ input.x = input.y) =>
        dtw_dist = 0

\* dtw_classic(x, x) has returned 0 for a sequence that is not constant
C6_Witness ==
    /\ pc = "done" /\ call.op = "classic" /\ input.n >= 3
    /\ input.x = input.y
    /\ input.x[0] # input.x[1] /\ input.x[1] # input.x[2]
    /\ dtw_dist = 0

(***************************************************************************)
(* C7: for n >= 2 and an integer window 0 <= w <= n-1, sakoe_chiba_band    *)
(* gives column j the rows from max(0, j-w) up to, not including,          *)
(* min(n, j+w+1); for n = 5 and w = 2 that is lo = [0,0,0,1,2],            *)
(* hi = [3,4,5,5,5].                                                       *)
(***************************************************************************)
C7_SakoeChibaRanges ==
    (call.op = "sakoe_chiba_band" /\ input.n >= 2
        /\ 0 <= call.window_size /\ call.window_size <= input.n - 1) =>
        /\ pc = "done"
        /\ DOMAIN region = {0, 1} \X (0 .. input.n - 1)
        /\ \A j \in 0 .. input.n - 1 :
             /\ region[<<0, j>>] = max2(0, j - call.window_size)
             /\ region[<<1, j>>] = min2(input.n, j + call.window_size + 1)
        /\ (input.n = 5 /\ call.window_size = 2) =>
             /\ <<region[<<0, 0>>], region[<<0, 1>>], region[<<0, 2>>],
                  region[<<0, 3>>], region[<<0, 4>>]>> = <<0, 0, 0, 1, 2>>
             /\ <<region[<<1, 0>>], region[<<1, 1>>], region[<<1, 2>>],
                  region[<<1, 3>>], region[<<1, 4>>]>> = <<3, 4, 5, 5, 5>>

\* the band of the example, n = 5 and w = 2, has been returned
C7_Witness ==
    /\ pc = "done" /\ call.op = "sakoe_chiba_band"
    /\ input.n = 5 /\ call.window_size = 2
    /\ region[<<0, 4>>] = 2 /\ region[<<1, 0>>] = 3

(***************************************************************************)
(* C8: the band of sakoe_chiba_band has lo[j] <= lo[j+1] and               *)
(* hi[j] <= hi[j+1] for j in 0..n-2, and hi[j] - lo[j] = 2w+1 on every     *)
(* column that no boundary clips (w <= j <= n-1-w).                        *)
(***************************************************************************)
C8_SakoeChibaMonotone ==
    (pc = "done" /\ call.op = "sakoe_chiba_band") =>
        /\ \A j \in 0 .. input.n - 2 :
             /\ region[<<0, j>>] <= region[<<0, j + 1>>]
             /\ region[<<1, j>>] <= region[<<1, j + 1>>]
        /\ \A j \in 0 .. input.n - 1 :
             (call.window_size <= j /\ j <= input.n - 1 - call.window_size) =>
                 region[<<1, j>>] - region[<<0, j>>] = 2 * call.window_size + 1

\* a band with clipped columns at both ends and unclipped ones in between
C8_Witness ==
    /\ pc = "done" /\ call.op = "sakoe_chiba_band"
    /\ call.window_size = 2 /\ input.n = 7
    /\ region[<<1, 0>>] - region[<<0, 0>>] = 3
    /\ region[<<1, 3>>] - region[<<0, 3>>] = 5
    /\ region[<<1, 6>>] - region[<<0, 6>>] = 3

(***************************************************************************)
(* C9: for n >= 2, itakura_parallelogram(n, max_slope=1) is the diagonal:  *)
(* lo[j] = j and hi[j] = j+1 on every column.                              *)
(***************************************************************************)
C9_ItakuraSlopeOneIsDiagonal ==
    (call.op = "itakura_parallelogram" /\ input.n >= 2
        /\ call.max_slope = <<1, 1>>) =>
        /\ pc = "done"
        /\ DOMAIN region = {0, 1} \X (0 .. input.n - 1)
        /\ \A j \in 0 .. input.n - 1 :
             region[<<0, j>>] = j /\ region[<<1, j>>] = j + 1

\* the parallelogram of slope 1 has been returned for n = 6
C9_Witness ==
    /\ pc = "done" /\ call.op = "itakura_parallelogram"
    /\ call.max_slope = <<1, 1>> /\ input.n = 6
    /\ region[<<0, 5>>] = 5 /\ region[<<1, 5>>] = 6

(***************************************************************************)
(* C10: for sequences of length n and a region of shape (2, n) with        *)
(* 0 <= lo[j] <= hi[j] <= n, entry (i,j) of cost_matrix(x, y, dist,        *)
(* region) is dist(x[i], y[j]) when lo[j] <= i < hi[j] and +inf otherwise; *)
(* without a region every entry (i,j) is dist(x[i], y[j]).                 *)
(***************************************************************************)
\* the squared or absolute difference, as the claim means it
C10_Dist(d, a, b) ==
    CHOOSE v \in 0 .. (CostMaxVal * CostMaxVal) :
        IF d = "square" THEN v = (a - b) * (a - b)
        ELSE v \in {a - b, b - a}

\* C10: the entries of the matrix cost_matrix returns, with and without a
\* region
C10_CostMatrixEntries ==
    (call.op = "cost_matrix" /\ (region = None \/ RegionCols(region) = input.n)) =>
        /\ pc = "done"
        /\ DOMAIN cost_mat = Cells(input.n)
        /\ \A i, j \in 0 .. input.n - 1 :
             cost_mat[<<i, j>>] =
                IF region = None
                    \/ (region[<<0, j>>] <= i /\ i < region[<<1, j>>])
                THEN C10_Dist(input.dist, input.x[i], input.y[j])
                ELSE Inf

\* a cost matrix under a region that is not symmetric: cell (0,2) is inside
\* and finite with the squared distance 4, cell (2,0) is outside
C10_Witness ==
    /\ pc = "done" /\ call.op = "cost_matrix" /\ region # None /\ input.n = 3
    /\ input.dist = "square"
    /\ cost_mat[<<0, 2>>] = 4
    /\ cost_mat[<<2, 0>>] = Inf
    /\ cost_mat[<<1, 1>>] = 1

(***************************************************************************)
(* C11: for every method (classic, sakoechiba, itakura, multiscale, fast,  *)
(* explicit region) the returned distance is the entry (n-1,n-1) of the    *)
(* accumulated cost matrix of the call, replaced by its square root        *)
(* exactly when dist is the built-in 'square', and returned as it is for   *)
(* 'absolute' and for a callable.  x = [0,1,1], y = [2,0,1] with 'square': *)
(* accumulated cost 4 and distance 2.0 under classic, accumulated cost 5   *)
(* and distance sqrt(5) under the region [[0,1,1],[2,2,3]].                *)
(***************************************************************************)
\* the region [[0, 1, 1], [2, 2, 3]] of the docstring of dtw_region
C11_ExampleRegion ==
    [c \in {0, 1} \X (0 .. 2) |->
        IF c[1] = 0 THEN (IF c[2] = 0 THEN 0 ELSE 1)
        ELSE (IF c[2] = 2 THEN 3 ELSE 2)]

\* d, in thousandths rounded down, is the square root of a
C11_IsRootOf(d, a) ==
    IF a = Inf THEN d = Inf
    ELSE d # Inf /\ d * d <= a * 1000000 /\ a * 1000000 < (d + 1) * (d + 1)

\* C11: the distance every method returns, from the last accumulated cost
C11_DistanceFromLastCell ==
    (pc = "done"
        /\ call.op \in {"classic", "sakoechiba", "itakura", "multiscale",
                        "fast", "region"}) =>
        LET last == acc_cost_mat[<<input.n - 1, input.n - 1>>]
        IN  /\ input.dist = "square" => C11_IsRootOf(dtw_dist, last)
            /\ input.dist # "square" =>
                  dtw_dist = (IF last = Inf THEN Inf ELSE 1000 * last)
            /\ (input.x = ExampleX /\ input.y = ExampleY
                    /\ input.dist = "square") =>
                  /\ call.op = "classic" => (last = 4 /\ dtw_dist = 2000)
                  /\ (call.op = "region" /\ call.region = C11_ExampleRegion) =>
                        (last = 5 /\ dtw_dist = 2236)

\* dtw_region has returned for the example under the region of the
\* docstring, with a callable that squares: the accumulated cost 5 comes
\* back as it is
C11_Witness ==
    /\ pc = "done" /\ call.op = "region" /\ call.region = C11_ExampleRegion
    /\ input.x = ExampleX /\ input.y = ExampleY /\ input.dist = "callable"
    /\ acc_cost_mat[<<2, 2>>] = 5
    /\ dtw_dist = 5000

(***************************************************************************)
(* C12: for sequences of length n >= 2, dtw_multiscale accepts every       *)
(* positive integer resolution (also a resolution >= n) and every          *)
(* non-negative integer radius: it returns a distance, and raises only     *)
(* when resolution < 1 or radius < 0.                                      *)
(***************************************************************************)
C12_MultiscaleAcceptsEveryResolution ==
    (call.op = "multiscale" /\ input.n >= 2) =>
        /\ pc \in {"done", "error"}
        /\ pc = "error" <=> (call.resolution < 1 \/ call.radius < 0)
        /\ pc = "done" => Leq(0, dtw_dist)

\* C12, for the resolutions below n only: there the call raises exactly when
\* resolution < 1 or radius < 0
C12_BelowLength ==
    (call.op = "multiscale" /\ input.n >= 2 /\ call.resolution < input.n) =>
        /\ pc = "error" <=> (call.resolution < 1 \/ call.radius < 0)
        /\ pc = "done" => Leq(0, dtw_dist)

\* C12, for the resolutions from n on: the call raises
C12_FromLengthOn ==
    (call.op = "multiscale" /\ input.n >= 2 /\ call.resolution >= input.n) =>
        pc = "error"

(***************************************************************************)
(* C13: dtw_classic accepts two sequences of length n = 1 and returns the  *)
(* distance derived from the single cost d(x[0], y[0]) instead of failing; *)
(* only the constrained variants require n >= 2.                           *)
(***************************************************************************)
C13_ClassicAcceptsLengthOne ==
    (call.op = "classic" /\ input.n = 1) =>
        /\ pc = "done"
        /\ LET d == (input.x[0] - input.y[0]) * (input.x[0] - input.y[0])
           IN  dtw_dist = 1000 * (IF input.dist = "absolute"
                                  THEN absolute(input.x[0], input.y[0])
                                  ELSE IF input.dist = "square"
                                  THEN absolute(input.x[0], input.y[0])
                                  ELSE d)

\* C13 as amended: dtw_classic raises for two sequences of length 1, and
\* returns a distance for every longer pair: like the constrained variants
\* it requires n >= 2
C13_ClassicRequiresLengthTwo ==
    (call.op = "classic") =>
        /\ input.n = 1 => pc = "error"
        /\ input.n >= 2 => (pc = "done" /\ Leq(0, dtw_dist))

\* dtw_classic has raised for two different sequences of length 1
C13_Witness ==
    /\ call.op = "classic" /\ pc = "error"
    /\ input.n = 1 /\ input.x[0] # input.y[0]

(***************************************************************************)
(* C14: for every square cost matrix (its entries outside the region +inf  *)
(* or not) and every region of matching shape, accumulated_cost_matrix     *)
(* (cost, region) gives each cell (i,j) of the region the value cost[i,j]  *)
(* + the least accumulated cost among those of (i-1,j-1), (i-1,j), (i,j-1) *)
(* that exist and lie in the region (+inf if none does); a cell outside    *)
(* the region, and the wrapped-around row n-1 read when i = 0, never       *)
(* contributes a finite value, and every cell outside the region stays     *)
(* +inf.  (The cell (0,0), which has no predecessor, starts the sums with  *)
(* cost[0,0].)                                                             *)
(***************************************************************************)
\* cell c lies in the region reg
C14_InRegion(reg, c) == reg[<<0, c[2]>>] <= c[1] /\ c[1] < reg[<<1, c[2]>>]

\* the predecessors of cell (i,j) that exist and lie in the region
C14_Predecessors(reg, i, j) ==
    {c \in {<<i - 1, j - 1>>, <<i - 1, j>>, <<i, j - 1>>} :
        c[1] >= 0 /\ c[2] >= 0 /\ C14_InRegion(reg, c)}

\* C14: every entry of the matrix accumulated_cost_matrix returns for a
\* region
C14_RegionRecurrence ==
    (pc = "done" /\ call.op = "accumulated_cost_matrix") =>
        \A c \in Cells(input.n) :
            acc_cost_mat[c] =
                IF ~ C14_InRegion(region, c) THEN Inf
                ELSE IF c = <<0, 0>> THEN cost_mat[c]
                ELSE LET before == {acc_cost_mat[d] :
                                       d \in C14_Predecessors(region, c[1], c[2])}
                     IN  IF before = {} THEN Inf
                         ELSE Add(cost_mat[c], Smallest(before))

\* C14, for the cost matrices that are +inf outside the region only
C14_RegionRecurrenceMasked ==
    (pc = "done" /\ call.op = "accumulated_cost_matrix"
        /\ \A c \in Cells(input.n) :
              ~ C14_InRegion(region, c) => cost_mat[c] = Inf) =>
        C14_RegionRecurrence

(***************************************************************************)
(* C15: for every n >= 2 and valid parameters, the region of each region   *)
(* generator (Sakoe-Chiba band, Itakura parallelogram, multiscale region,  *)
(* every level of the fast region) has lo[j] < hi[j] on every column and   *)
(* contains a monotone path of allowed moves from (0,0) to (n-1,n-1), so   *)
(* that the DTW distance computed under it is finite for finite inputs.    *)
(***************************************************************************)
\* the columns of row i of the n x n grid that a path of allowed moves within
\* region reg reaches from (0,0): column j is reached when the cells
\* (i,k), ..., (i,j) lie in reg for a k at which the path starts (i = k = 0)
\* or comes down from a reached cell of row i - 1
RECURSIVE ReachedColumns(_, _, _)
ReachedColumns(reg, n, i) ==
    LET above == IF i = 0 THEN {} ELSE ReachedColumns(reg, n, i - 1)
    IN  {j \in 0 .. n - 1 :
            \E k \in 0 .. j :
                /\ \A m \in k .. j : reg[<<0, m>>] <= i /\ i < reg[<<1, m>>]
                /\ \/ i = 0 /\ k = 0
                   \/ k \in above
                   \/ k - 1 \in above}

\* region reg of n columns has no empty column and joins (0,0) to (n-1,n-1)
C15_Connected(reg, n) ==
    /\ DOMAIN reg = {0, 1} \X (0 .. n - 1)
    /\ \A j \in 0 .. n - 1 :
         0 <= reg[<<0, j>>] /\ reg[<<0, j>>] < reg[<<1, j>>] /\ reg[<<1, j>>] <= n
    /\ n - 1 \in ReachedColumns(reg, n, n - 1)

\* the band and the parallelogram, as the generators return them
C15_BandAndParallelogramConnected ==
    (pc = "done" /\ call.op \in {"sakoe_chiba_band", "itakura_parallelogram"}) =>
        C15_Connected(region, input.n)

\* C15: the regions the dtw methods compute under, and the regions of the
\* coarse levels of multiscale and fast, are connected, and the distance is
\* finite
C15_RegionsConnected ==
    (pc = "done" /\ call.op \in {"sakoechiba", "itakura", "multiscale", "fast"}) =>
        /\ region # None => C15_Connected(region, input.n)
        /\ \A k \in 1 .. Len(levels) :
             C15_Connected(levels[k].region,
                           IF k < Len(levels) THEN levels[k + 1].n_reduced
                           ELSE input.n)
        /\ dtw_dist # Inf

\* dtw_fast has gone through two coarse levels for two sequences that
\* differ, and the last region leaves a corner of the grid out
C15_Witness ==
    /\ pc = "done" /\ call.op = "fast" /\ Len(levels) = 2
    /\ input.x # input.y
    /\ region[<<0, input.n - 1>>] > 0
    /\ levels[2].region_in = levels[1].region
    /\ dtw_dist > 0

(***************************************************************************)
(* C16: in the multiscale region generator with radius rho >= 1, for every *)
(* cell (a,b) of the coarse path and every shift k in 1..rho, the four     *)
(* shifted cells (a+k,b), (a-k,b), (a,b-k), (a,b+k), clipped to the coarse *)
(* grid, are all in the dilated cell set the region is built from, for     *)
(* every rho, also rho >= 2.                                               *)
(***************************************************************************)
\* the cells the claim names for the path p, radius rho and a grid of side m
C16_Dilated(p, rho, m) ==
    LET cl(v) == IF v < 0 THEN 0 ELSE IF v > m - 1 THEN m - 1 ELSE v
    IN  UNION {{<<cl(p[t][1] + k), p[t][2]>>, <<cl(p[t][1] - k), p[t][2]>>,
                <<p[t][1], cl(p[t][2] - k)>>, <<p[t][1], cl(p[t][2] + k)>>} :
                    t \in 1 .. Len(p), k \in 1 .. rho}

\* C16: every shifted cell of every path cell is in the dilated set
C16_EveryShiftOfEveryCell ==
    (pc = "done" /\ call.op \in {"multiscale", "fast"} /\ call.radius >= 1) =>
        \A k \in 1 .. Len(levels) :
            C16_Dilated(levels[k].path_res, call.radius, levels[k].n_reduced)
                \subseteq levels[k].path_radius

\* C16, for the radius 1 only
C16_RadiusOne ==
    (pc = "done" /\ call.op \in {"multiscale", "fast"} /\ call.radius = 1) =>
        C16_EveryShiftOfEveryCell

(***************************************************************************)
(* C17: the full-resolution region of the multiscale generator, read as    *)
(* cost_matrix reads it (column j indexes y, rows lo[j]..hi[j]-1 index x), *)
(* contains the projection of the coarse path: for every coarse path cell  *)
(* (a,b) (a the coarse x index, b the coarse y index), every cell (i,j)    *)
(* with i div r = a, j div r = b and i, j < n lies in the region, also     *)
(* when the coarse path is not symmetric about the diagonal.               *)
(***************************************************************************)
\* region reg of n columns, built for the resolution r, contains the
\* projection of every cell of the coarse path p
C17_ContainsProjection(reg, n, r, p) ==
    \A t \in 1 .. Len(p) :
        \A i, j \in 0 .. n - 1 :
            (i \div r = p[t][1] /\ j \div r = p[t][2]) =>
                (reg[<<0, j>>] <= i /\ i < reg[<<1, j>>])

\* C17: the region of dtw_multiscale, and the region each level of dtw_fast
\* hands to the next, contain the projection of the coarse path
C17_RegionContainsProjectedPath ==
    (pc = "done" /\ call.op \in {"multiscale", "fast"}) =>
        \A k \in 1 .. Len(levels) :
            C17_ContainsProjection(
                levels[k].region,
                IF k < Len(levels) THEN levels[k + 1].n_reduced ELSE input.n,
                IF call.op = "multiscale" THEN call.resolution ELSE 2,
                levels[k].path_res)

\* C17 with the two indices of the path cells exchanged: the region contains
\* the projection of the transposed coarse path
C17_RegionContainsTransposedPath ==
    (pc = "done" /\ call.op \in {"multiscale", "fast"}) =>
        \A k \in 1 .. Len(levels) :
            C17_ContainsProjection(
                levels[k].region,
                IF k < Len(levels) THEN levels[k + 1].n_reduced ELSE input.n,
                IF call.op = "multiscale" THEN call.resolution ELSE 2,
                [t \in 1 .. Len(levels[k].path_res) |->
                    <<levels[k].path_res[t][2], levels[k].path_res[t][1]>>])

(***************************************************************************)
(* C18: in dtw_fast with n > radius + 2 the loop runs exactly              *)
(* k = ceil(log2(n / (radius + 2))) iterations, with the block sizes 2^k,  *)
(* 2^(k-1), ..., 2 in that order; the coarsest reduced sequences have a    *)
(* length between 2 and radius + 2; and the region of each iteration has   *)
(* exactly as many columns as the reduced sequences of the next iteration  *)
(* (n for the last), so that no shape error is raised at any level.        *)
(***************************************************************************)
\* ceil(log2(n / m)) for n > m >= 2: the k with m * 2^(k-1) < n <= m * 2^k
C18_CeilLog2(n, m) ==
    CHOOSE k \in 1 .. n : m * (2 ^ (k - 1)) < n /\ n <= m * (2 ^ k)

\* C18: the levels dtw_fast went through
C18_FastLevels ==
    (call.op = "fast" /\ call.radius >= 0 /\ input.n > call.radius + 2) =>
        LET k == C18_CeilLog2(input.n, call.radius + 2)
        IN  /\ pc = "done"
            /\ Len(levels) = k
            /\ \A i \in 1 .. k : levels[i].resolution = 2 ^ (k + 1 - i)
            /\ 2 <= levels[1].n_reduced /\ levels[1].n_reduced <= call.radius + 2
            /\ \A i \in 1 .. k :
                 /\ levels[i].n_reduced =
                        (input.n + levels[i].resolution - 1) \div levels[i].resolution
                 /\ RegionCols(levels[i].region) =
                        (IF i < k THEN levels[i + 1].n_reduced ELSE input.n)
                 /\ i > 1 => levels[i].region_in = levels[i - 1].region
            /\ region = levels[k].region

\* dtw_fast has returned after two iterations, with blocks of 4 and then of 2
C18_Witness ==
    /\ pc = "done" /\ call.op = "fast" /\ input.n = 5 /\ call.radius = 0
    /\ Len(levels) = 2
    /\ levels[1].resolution = 4 /\ levels[1].n_reduced = 2
    /\ levels[2].resolution = 2 /\ levels[2].n_reduced = 3
    /\ RegionCols(levels[1].region) = 3 /\ RegionCols(region) = 5

(***************************************************************************)
(* C19: for sequences of length n >= 2 and a radius with n <= radius + 2,  *)
(* dtw_fast performs no recursion and uses no region: its distance, cost   *)
(* matrix, accumulated cost matrix and path are those of dtw_classic on    *)
(* the same inputs.                                                        *)
(***************************************************************************)
C19_FastWithoutRecursionIsClassic ==
    (call.op = "fast" /\ call.radius >= 0 /\ input.n >= 2
        /\ input.n <= call.radius + 2) =>
        LET classic == dtw_classic(input.x, input.y, input.dist, input.n)
        IN  /\ pc = "done"
            /\ levels = <<>>
            /\ region = None
            /\ dtw_dist = classic.dtw_dist
            /\ cost_mat = classic.cost_mat
            /\ acc_cost_mat = classic.acc_cost_mat
            /\ path = classic.path
            /\ \A c \in Cells(input.n) : cost_mat[c] # Inf
            /\ acc_cost_mat[<<input.n - 1, input.n - 1>>] =
                    MinPathCost(cost_mat, input.n - 1, input.n - 1)

\* dtw_fast has returned for n = radius + 2 = 4, without a region, a positive
\* distance
C19_Witness ==
    /\ pc = "done" /\ call.op = "fast" /\ call.radius = 2 /\ input.n = 4
    /\ region = None /\ levels = <<>>
    /\ dtw_dist > 0
    /\ Len(path) > 4

(***************************************************************************)
(* C20: when dtw_region is given a well-shaped region that disconnects     *)
(* (0,0) from (n-1,n-1), the call raises no error: infinity propagates     *)
(* through the accumulated cost matrix, the returned distance is +inf, and *)
(* the path reconstruction still terminates and returns a path from (0,0)  *)
(* to (n-1,n-1).                                                           *)
(***************************************************************************)
C20_DisconnectedRegionGivesInfinity ==
    (call.op = "region" /\ input.n >= 2
        /\ RegionCols(call.region) = input.n
        /\ input.n - 1 \notin ReachedColumns(call.region, input.n, input.n - 1)) =>
        /\ pc = "done"
        /\ dtw_dist = Inf
        /\ \A c \in Cells(input.n) :
             acc_cost_mat[c] = Inf <=>
                c[2] \notin ReachedColumns(call.region, input.n, c[1])
        /\ path[1] = <<0, 0>>
        /\ path[Len(path)] = <<input.n - 1, input.n - 1>>
        /\ \A k \in 1 .. Len(path) - 1 :
             <<path[k + 1][1] - path[k][1], path[k + 1][2] - path[k][2]>> \in Moves

\* dtw_region has returned for a region that contains both corners and
\* no path between them: finite accumulated costs near (0,0), +inf at the
\* end, and a path through cells outside the region
C20_Witness ==
    /\ pc = "done" /\ call.op = "region" /\ input.n = 3
    /\ call.region[<<0, 0>>] = 0 /\ call.region[<<1, 0>>] = 1
    /\ call.region[<<0, 2>>] = 2 /\ call.region[<<1, 2>>] = 3
    /\ call.region[<<0, 1>>] = call.region[<<1, 1>>]
    /\ acc_cost_mat[<<0, 0>>] # Inf
    /\ cost_mat[<<2, 2>>] # Inf
    /\ dtw_dist = Inf
    /\ path = << <<0, 0>>, <<1, 1>>, <<2, 2>> >>

(***************************************************************************)
(* C21: whenever a dtw method returns a finite distance together with the  *)
(* path, every cell of the path has a finite entry in the cost matrix (it  *)
(* lies inside the constraint region), and the sum of the cost entries     *)
(* over the path cells equals the accumulated cost at (n-1,n-1): the       *)
(* returned path realises the returned distance.                           *)
(***************************************************************************)
C21_PathRealisesDistance ==
    (pc = "done" /\ dtw_dist # Inf
        /\ call.op \in {"classic", "sakoechiba", "itakura", "multiscale",
                        "fast", "region"}) =>
        /\ \A k \in 1 .. Len(path) :
             /\ cost_mat[path[k]] # Inf
             /\ region # None =>
                  /\ region[<<0, path[k][2]>>] <= path[k][1]
                  /\ path[k][1] < region[<<1, path[k][2]>>]
        /\ PathCost(cost_mat, path) = acc_cost_mat[<<input.n - 1, input.n - 1>>]
        /\ \A k \in 1 .. Len(path) :
             acc_cost_mat[path[k]] = PathCost(cost_mat, SubSeq(path, 1, k))

\* dtw_sakoechiba has returned, under a band that leaves cells out, a path
\* that leaves the diagonal and a positive distance
C21_Witness ==
    /\ pc = "done" /\ call.op = "sakoechiba" /\ call.window_size = 1
    /\ input.n = 4
    /\ \E k \in 1 .. Len(path) : path[k][1] # path[k][2]
    /\ \E c \in Cells(input.n) : cost_mat[c] = Inf
    /\ dtw_dist # Inf /\ dtw_dist > 0

====
